---- MODULE Spec2Model ----
(***************************************************************************)
(* Model of kamjsonrpc.go: the Kamailio JSON-RPC client.                   *)
(*                                                                         *)
(* One client (url, http client, id counter, mutex) is shared by a set of  *)
(* concurrent callers.  Every caller runs KamailioJsonRpc.Call, directly   *)
(* or through a typed wrapper, statement by statement; the HTTP server and *)
(* the transport are the environment and may answer anything.              *)
(***************************************************************************)
EXTENDS Integers, Sequences, FiniteSets, Bags, TLC

\* ---------------------------------------------------------------- bounds
NumCallers == 2     \* goroutines sharing the client
MaxCalls == 2       \* calls started over one behaviour

Callers == 1..NumCallers

\* ------------------------------------------------------- uint64 arithmetic
\* A uint64 (the type of KamailioJsonRpc.id, KamJsonRpcRequest.Id and
\* KamJsonRpcResponse.Id) is kept at its full width as NumLimbs limbs of
\* base LimbBase, most significant first: 65536^4 = 2^64.
LimbBase == 65536
NumLimbs == 4

Uint64Zero == [i \in 1..NumLimbs |-> 0]
MaxUint64 == [i \in 1..NumLimbs |-> LimbBase - 1]

\* The uint64 of a small natural number.
FromNat(k) == [i \in 1..NumLimbs |-> IF i = NumLimbs THEN k ELSE 0]

RECURSIVE AddCarry(_, _)
AddCarry(x, i) ==
    IF i = 0 THEN x
    ELSE IF x[i] = LimbBase - 1 THEN AddCarry([x EXCEPT ![i] = 0], i - 1)
    ELSE [x EXCEPT ![i] = x[i] + 1]

\* x + 1 on uint64: Go's unsigned addition wraps around at 2^64.
PlusOne(x) == AddCarry(x, NumLimbs)

RECURSIVE LessFrom(_, _, _)
LessFrom(x, y, i) ==
    IF i > NumLimbs THEN FALSE
    ELSE IF x[i] # y[i] THEN x[i] < y[i]
    ELSE LessFrom(x, y, i + 1)

\* x < y on uint64.
Less(x, y) == LessFrom(x, y, 1)

\* Long division of a uint64 by ten: quotient limbs and remainder.
RECURSIVE DivTen(_, _, _, _)
DivTen(x, i, q, r) ==
    IF i > NumLimbs THEN [q |-> q, r |-> r]
    ELSE DivTen(x, i + 1, [q EXCEPT ![i] = (r * LimbBase + x[i]) \div 10],
                (r * LimbBase + x[i]) % 10)

RECURSIVE Digits(_)
Digits(x) ==
    IF x = Uint64Zero THEN ""
    ELSE LET d == DivTen(x, 1, Uint64Zero, 0) IN Digits(d.q) \o ToString(d.r)

\* The %d verb of fmt on a uint64.
FormatUint(x) == IF x = Uint64Zero THEN "0" ELSE Digits(x)

\* ------------------------------------------------------------ Go values
\* A pointer, an error or a json.RawMessage is Nil or holds one value.
Nil == <<>>
Ptr(v) == <<v>>
Deref(p) == p[1]

\* const OK
OK == "OK"

\* An interface{} value: its dynamic type and, for strings, the content.
StringValue(s) == [type |-> "string", strs |-> <<s>>]
StringSlice(ss) == [type |-> "[]string", strs |-> ss]
NilValue == [type |-> "nil", strs |-> <<>>]
ChanValue == [type |-> "chan", strs |-> <<>>]
\* A []interface{} holding numbers (strs gives their JSON texts): a list
\* that is not a []string.
NumberList(ns) == [type |-> "[]interface{}", strs |-> ns]
\* The record a decoding wrapper fills (RegistrationInfo, ULDump, ULSingle).
StructValue == [type |-> "struct", strs |-> <<>>]

\* A Go string may hold bytes that are not UTF-8: this one is the byte 0xff.
BadUtf8 == "\\xff"

\* The args a caller passes to Call directly: a []string (with elements or
\* empty), the nil interface, a list that is not a []string and a value
\* encoding/json cannot serialize.
CallArgs ==
    {StringSlice(<<"a", "b">>), StringSlice(<<>>), NilValue, NumberList(<<"1">>),
     ChanValue}
\* The params a caller passes to a typed wrapper.
WrapperParams == {StringSlice(<<"a", "b">>)}
\* The params a caller passes to CoreEcho.
EchoParams == {StringSlice(<<"a", "b">>), StringSlice(<<>>), StringSlice(<<BadUtf8>>)}

\* The operations of the client and the remote method each one names.
CommandOps ==
    {"UacRegEnable", "UacRegDisable", "UacRegReload", "UacRegRefresh", "DomainReload"}
DecodeOps == {"CoreEcho", "UacRegInfo", "UsrlocDump", "UsrlocLookup"}
Ops == {"Call"} \cup CommandOps \cup DecodeOps
MethodOf(o) ==
    CASE o = "UacRegEnable" -> "uac.reg_enable"
      [] o = "UacRegDisable" -> "uac.reg_disable"
      [] o = "UacRegReload" -> "uac.reg_reload"
      [] o = "UacRegRefresh" -> "uac.reg_refresh"
      [] o = "UacRegInfo" -> "uac.reg_info"
      [] o = "DomainReload" -> "domain.reload"
      [] o = "UsrlocDump" -> "ul.dump"
      [] o = "UsrlocLookup" -> "ul.lookup"
      [] OTHER -> "core.echo"
ArgsOf(o) ==
    IF o = "Call" THEN CallArgs
    ELSE IF o = "CoreEcho" THEN EchoParams
    ELSE WrapperParams

\* A variant of BuildParams that makes args the sole parameter whatever its
\* type.
BuildParamsAlwaysWrapped(a) == <<a>>

\* Call, lines 64-72: the request envelope with args normalized into Params.
BuildParams(a) ==
    IF a.type = "[]string"
    THEN [i \in 1..Len(a.strs) |-> StringValue(a.strs[i])]
    ELSE <<a>>

BuildRequest(method, a, rid) ==
    [Jsonrpc |-> "2.0", Method |-> method, Params |-> BuildParams(a), Id |-> rid]

\* json.Marshal(req), line 73: fails on a value of an unsupported type.
MarshalFails(r) == \E i \in 1..Len(r.Params) : r.Params[i].type = "chan"

\* encoding/json writes a string coerced to valid UTF-8: an invalid byte
\* becomes the replacement character, written \ufffd.
Utf8Coerce(str) == IF str = BadUtf8 THEN "\\ufffd" ELSE str
JsonString(str) == "\"" \o Utf8Coerce(str) \o "\""

RECURSIVE JoinTexts(_)
JoinTexts(ts) ==
    IF ts = <<>> THEN ""
    ELSE IF Len(ts) = 1 THEN ts[1]
    ELSE ts[1] \o "," \o JoinTexts(Tail(ts))

JsonArray(ts) == "[" \o JoinTexts(ts) \o "]"

\* The JSON text json.Marshal writes for one element of Params.
JsonValue(v) ==
    CASE v.type = "string" -> JsonString(v.strs[1])
      [] v.type = "[]string" -> JsonArray([i \in 1..Len(v.strs) |-> JsonString(v.strs[i])])
      [] v.type = "[]interface{}" -> JsonArray(v.strs)
      [] OTHER -> "null"

\* The text of the params member of the body json.Marshal(req) writes.
MarshalParams(ps) == JsonArray([i \in 1..Len(ps) |-> JsonValue(ps[i])])

\* json.Unmarshal(rplRaw, reply) with reply a *[]string (CoreEcho, line
\* 110): the text must be an array of strings.
DecodedStrings == {"a", "b", "\\ufffd"}
StringLists ==
    {<<>>} \cup {<<x>> : x \in DecodedStrings}
           \cup {<<x, y>> : x \in DecodedStrings, y \in DecodedStrings}
UnmarshalStrings(text) ==
    LET m == {l \in StringLists :
                 JsonArray([i \in 1..Len(l) |-> JsonString(l[i])]) = text}
    IN IF m = {} THEN [ok |-> FALSE, val |-> <<>>]
       ELSE [ok |-> TRUE, val |-> CHOOSE l \in m : TRUE]

\* json.Unmarshal into a struct (lines 154, 171, 180): the text must be an
\* object; members it does not give are left as they were.
UnmarshalStruct(text) == text = "{}"

\* ------------------------------------------------------------- responses
\* What comes back from client.Post and ioutil.ReadAll: a transport failure
\* (fail = "post" or "read") or a status code with a body.  A body is either
\* not a well-formed envelope (wf = FALSE) or gives the members id, result
\* and error as the server wrote them: result is absent (<<>>) or one JSON
\* text; error is absent or null (<<>>) or one object.
Statuses == {200, 299, 300, 500}
ResultTexts == {"null", "[\"a\",\"b\"]", "{}"}

ResultFields == {Nil} \cup {Ptr(t) : t \in ResultTexts}
KamError(c, m) == [Code |-> c, Message |-> m]
ErrorFields ==
    {Nil, Ptr(KamError(-32000, "Execution Error")),
          Ptr(KamError(-32601, "Execution Error")),
          Ptr(KamError(-32601, "Method not found"))}

BadBody == [wf |-> FALSE, id |-> Uint64Zero, result |-> Nil, error |-> Nil]
\* The bodies a server may send for a request whose params were written as
\* the text echo: the result may also be that text (an echoing server); a
\* body with an error object has no result member or has that one.
Bodies(ids, echo) ==
    {BadBody} \cup
    {[wf |-> TRUE, id |-> i, result |-> r, error |-> Nil] :
        i \in ids, r \in ResultFields \cup {Ptr(echo)}} \cup
    {[wf |-> TRUE, id |-> i, result |-> r, error |-> e] :
        i \in ids, r \in {Nil, Ptr(echo)}, e \in ErrorFields \ {Nil}}

PostFailure == [fail |-> "post", status |-> 0, body |-> BadBody]
ReadFailure == [fail |-> "read", status |-> 0, body |-> BadBody]
NoResponse == [fail |-> "unsent", status |-> 0, body |-> BadBody]
Responses(ids, echo) ==
    {PostFailure, ReadFailure} \cup
    {[fail |-> "none", status |-> s, body |-> b] :
        s \in Statuses, b \in Bodies(ids, echo)}

\* json.Unmarshal(respBody, &kamResponse), line 87, into KamJsonRpcResponse:
\* a *json.RawMessage member that is absent or the literal null stays a nil
\* pointer, any other value is kept as its raw text.
Unmarshal(body) ==
    IF ~body.wf THEN [ok |-> FALSE, Id |-> Uint64Zero, Result |-> Nil, Error |-> Nil]
    ELSE [ok |-> TRUE,
          Id |-> body.id,
          Result |-> IF body.result = Nil \/ body.result = Ptr("null")
                     THEN Nil ELSE body.result,
          Error |-> body.error]

\* The error values Call builds (lines 91, 94, 97); an error is its text.
ProtocolError(e) == e.Message
UnexpectedStatusError(status) ==
    "Unexpected status code received: " \o ToString(status)
UnsynchronizedResponseError(had, received) ==
    "Unsynchronized request, had: " \o FormatUint(had)
        \o ", received: " \o FormatUint(received)

\* Variants of the tests below, each a slip the code could have made.
HasErrorWithoutResult(k) == k.Error # Nil /\ k.Result = Nil
BadStatusFrom299(status) == status >= 299
BadStatusAbove300(status) == status > 300
IdMismatchIgnored(k, rid) == FALSE

\* The tests of lines 90, 93 and 96.
HasError(k) == k.Error # Nil
BadStatus(status) == status > 299
IdMismatch(k, rid) == k.Id # rid

Return(site, err, reply) == [ret |-> site, err |-> err, reply |-> reply]

\* A variant of HandleResponse that copies the result into reply before it
\* compares the identifiers.
HandleResponseWritingEarly(rid, resp, reply) ==
    IF resp.fail = "post" THEN Return("TransportError", Ptr("post failed"), reply)
    ELSE IF resp.fail = "read" THEN Return("TransportError", Ptr("read failed"), reply)
    ELSE LET k == Unmarshal(resp.body) IN
        IF ~k.ok THEN Return("DecodeError", Ptr("invalid JSON"), reply)
        ELSE IF HasError(k)
            THEN Return("ProtocolError", Ptr(ProtocolError(Deref(k.Error))), reply)
        ELSE IF BadStatus(resp.status)
            THEN Return("UnexpectedStatusError",
                        Ptr(UnexpectedStatusError(resp.status)), reply)
        ELSE IF k.Result = Nil THEN Return("panic", Nil, reply)
        ELSE IF IdMismatch(k, rid)
            THEN Return("UnsynchronizedResponseError",
                        Ptr(UnsynchronizedResponseError(rid, k.Id)), k.Result)
        ELSE Return("ok", Nil, k.Result)

\* A variant of HandleResponse that tests the status before it decodes the
\* body.
HandleResponseStatusBeforeDecode(rid, resp, reply) ==
    IF resp.fail = "post" THEN Return("TransportError", Ptr("post failed"), reply)
    ELSE IF resp.fail = "read" THEN Return("TransportError", Ptr("read failed"), reply)
    ELSE IF BadStatus(resp.status)
        THEN Return("UnexpectedStatusError",
                    Ptr(UnexpectedStatusError(resp.status)), reply)
    ELSE LET k == Unmarshal(resp.body) IN
        IF ~k.ok THEN Return("DecodeError", Ptr("invalid JSON"), reply)
        ELSE IF HasError(k)
            THEN Return("ProtocolError", Ptr(ProtocolError(Deref(k.Error))), reply)
        ELSE IF IdMismatch(k, rid)
            THEN Return("UnsynchronizedResponseError",
                        Ptr(UnsynchronizedResponseError(rid, k.Id)), reply)
        ELSE IF k.Result = Nil THEN Return("panic", Nil, reply)
        ELSE Return("ok", Nil, k.Result)

\* A variant of HandleResponse that tests the HTTP status before the error
\* object.
HandleResponseStatusFirst(rid, resp, reply) ==
    IF resp.fail = "post" THEN Return("TransportError", Ptr("post failed"), reply)
    ELSE IF resp.fail = "read" THEN Return("TransportError", Ptr("read failed"), reply)
    ELSE LET k == Unmarshal(resp.body) IN
        IF ~k.ok THEN Return("DecodeError", Ptr("invalid JSON"), reply)
        ELSE IF BadStatus(resp.status)
            THEN Return("UnexpectedStatusError",
                        Ptr(UnexpectedStatusError(resp.status)), reply)
        ELSE IF HasError(k)
            THEN Return("ProtocolError", Ptr(ProtocolError(Deref(k.Error))), reply)
        ELSE IF IdMismatch(k, rid)
            THEN Return("UnsynchronizedResponseError",
                        Ptr(UnsynchronizedResponseError(rid, k.Id)), reply)
        ELSE IF k.Result = Nil THEN Return("panic", Nil, reply)
        ELSE Return("ok", Nil, k.Result)

\* Call, lines 77-100: from the outcome of the HTTP exchange to the return.
\* ret names the return statement taken ("panic": the nil dereference of
\* line 99), err is the error returned, reply the caller's *reply afterwards.
HandleResponse(rid, resp, reply) ==
    IF resp.fail = "post" THEN Return("TransportError", Ptr("post failed"), reply)
    ELSE IF resp.fail = "read" THEN Return("TransportError", Ptr("read failed"), reply)
    ELSE LET k == Unmarshal(resp.body) IN
        IF ~k.ok THEN Return("DecodeError", Ptr("invalid JSON"), reply)
        ELSE IF HasError(k)
            THEN Return("ProtocolError", Ptr(ProtocolError(Deref(k.Error))), reply)
        ELSE IF BadStatus(resp.status)
            THEN Return("UnexpectedStatusError",
                        Ptr(UnexpectedStatusError(resp.status)), reply)
        ELSE IF IdMismatch(k, rid)
            THEN Return("UnsynchronizedResponseError",
                        Ptr(UnsynchronizedResponseError(rid, k.Id)), reply)
        ELSE IF k.Result = Nil THEN Return("panic", Nil, reply)
        ELSE Return("ok", Nil, k.Result)

\* Call, lines 73-76: the return when json.Marshal fails.
SerializeReturn(reply) == Return("SerializeError", Ptr("unsupported type"), reply)

\* A variant of CommandWrapper that sets the reply before it looks at the
\* error of Call.
CommandWrapperSettingFirst(call, reply) ==
    IF call.ret = "panic" THEN Return("panic", Nil, reply)
    ELSE Return(call.ret, call.err, OK)

\* A command wrapper after its Call (UacRegEnable, lines 115-119): the
\* error of Call unchanged, or *reply = OK.  A panic in Call unwinds through
\* the wrapper.
CommandWrapper(call, reply) ==
    IF call.ret = "panic" THEN Return("panic", Nil, reply)
    ELSE IF call.err # Nil THEN Return(call.ret, call.err, reply)
    ELSE Return("ok", Nil, OK)

\* A variant of DecodeWrapper that returns without decoding the result into
\* reply.
DecodeWrapperNotDecoding(o, call, reply) ==
    IF call.ret = "panic" THEN Return("panic", Nil, reply)
    ELSE IF call.err # Nil THEN Return(call.ret, call.err, reply)
    ELSE Return("ok", Nil, reply)

\* A decoding wrapper after its Call (CoreEcho, lines 107-110; UacRegInfo,
\* UsrlocDump, UsrlocLookup alike): the error of Call unchanged, or the
\* outcome of json.Unmarshal(raw, reply).
DecodeWrapper(o, call, reply) ==
    IF call.ret = "panic" THEN Return("panic", Nil, reply)
    ELSE IF call.err # Nil THEN Return(call.ret, call.err, reply)
    ELSE IF o = "CoreEcho"
        THEN LET u == UnmarshalStrings(Deref(call.reply)) IN
             IF u.ok THEN Return("ok", Nil, StringSlice(u.val))
             ELSE Return("DecodeError", Ptr("cannot unmarshal into []string"), reply)
    ELSE IF UnmarshalStruct(Deref(call.reply)) THEN Return("ok", Nil, reply)
    ELSE Return("DecodeError", Ptr("cannot unmarshal into struct"), reply)

\* What the caller's typed reply holds before a wrapper runs.
WrapperReplyBefore(o) ==
    IF o = "CoreEcho" THEN StringSlice(<<"old">>) ELSE StructValue

\* A wrapper around the return of its Call.
Wrapper(o, call) ==
    IF o \in CommandOps THEN CommandWrapper(call, "")
    ELSE DecodeWrapper(o, call, WrapperReplyBefore(o))

\* ----------------------------------------------------------------- state
VARIABLES
    id,         \* KamailioJsonRpc.id, the shared counter
    mutex,      \* KamailioJsonRpc.mutex: 0 unlocked, else the caller whose Lock() took it
    pc,         \* per caller: the statement of Call it is at
    op,         \* per caller: the operation it is running
    args,       \* per caller: the args of its Call
    reply,      \* per caller: the json.RawMessage its Call was given to fill
    reqId,      \* per caller: the local reqId of its Call
    req,        \* per caller: the local req of its Call
    started,    \* number of calls begun so far
    issued,     \* the values read at line 61, in the order they were read
    envelopes,  \* the bag of Id values of the envelopes built at line 64
    returned,   \* the return made by the last step, if it was one
    url,        \* KamailioJsonRpc.url
    client,     \* KamailioJsonRpc.client: the transport and its TLS setting
    posts,      \* per caller: the client.Post calls its Call has made
    draws,      \* per caller: the identifiers its Call has read
    finished,   \* the identifiers of the calls that have returned
    misrouted,  \* per caller: the call that was given the response of its call
    prior       \* per caller, until it reads the counter: the calls returned when it began

vars ==
    <<id, mutex, pc, op, args, reply, reqId, req, started, issued, envelopes,
      returned, url, client, posts, draws, finished, misrouted, prior>>

NoReturn == <<>>
NoRequest == BuildRequest("", NilValue, Uint64Zero)
NoWrapper == Return("none", Nil, "")

\* What a caller's reply variable may hold when it calls Call directly; a
\* wrapper declares a fresh one (var regRaw json.RawMessage).
ReplyBefore(o) == IF o = "Call" THEN {Ptr("\"old\"")} ELSE {Nil}

\* The identifiers a server or a faulty transport may echo to caller c: none
\* (zero), its own, or that of any other call made so far (a misrouted or
\* stale response).
EchoIds(c) == {Uint64Zero, reqId[c]} \cup {issued[i] : i \in 1..Len(issued)}

\* The call of caller c was given the response meant for caller d, and
\* failed on the identifier: a decoded response that echoes the identifier
\* of d's call, which is waiting for its response as c's is.
Crossing(c, d, resp, call) ==
    /\ d # c
    /\ call.ret = "UnsynchronizedResponseError"
    /\ pc[d] = "await"
    /\ reqId[d] = resp.body.id

\* What each caller may run.  Caller 1 runs any operation with any of its
\* arguments; the callers beside it are concurrent load and run Call with a
\* list of strings.
ChoicesOf(c) ==
    IF c = 1 THEN
        UNION {{<<o, a>> : a \in ArgsOf(o)} : o \in Ops}
    ELSE {<<"Call", StringSlice(<<"a", "b">>)>>}

\* The endpoints and TLS settings a client may be constructed with.
Endpoints == {"", "https://kamailio.example/RPC"}
SkipTlsVerify == BOOLEAN
\* The client whose calls are followed is constructed with these; no
\* statement of Call or of a wrapper depends on them but client.Post.
Configs == {<<"https://kamailio.example/RPC", TRUE>>}

\* NewKamailioJsonRpc(url, skipTlsVerify), lines 45-49: the client and the
\* error it returns.  id is not set: it has the zero value of uint64.
NewKamailioJsonRpc(u, skip) ==
    [self |-> [url |-> u, client |-> [InsecureSkipVerify |-> skip],
               id |-> Uint64Zero, mutex |-> 0],
     err |-> Nil]

\* A client as constructed, with its counter at first, and callers that
\* have not called yet.
NewClient(first) ==
    /\ \E cfg \in Configs :
        LET k == NewKamailioJsonRpc(cfg[1], cfg[2]) IN
        /\ k.err = Nil
        /\ url = k.self.url
        /\ client = k.self.client
        /\ mutex = k.self.mutex
    /\ id = first
    /\ posts = [c \in Callers |-> 0]
    /\ draws = [c \in Callers |-> 0]
    /\ finished = {}
    /\ misrouted = [c \in Callers |-> Nil]
    /\ prior = [c \in Callers |-> {}]
    /\ pc = [c \in Callers |-> "idle"]
    /\ op = [c \in Callers |-> "Call"]
    /\ args = [c \in Callers |-> NilValue]
    /\ reply = [c \in Callers |-> Nil]
    /\ reqId = [c \in Callers |-> Uint64Zero]
    /\ req = [c \in Callers |-> NoRequest]
    /\ started = 0
    /\ issued = <<>>
    /\ envelopes = EmptyBag
    /\ returned = NoReturn

\* A variant of Init whose counter starts at one.
InitFromOne == NewClient(FromNat(1))

Init == NewClient(Uint64Zero)

\* A client that has already served 2^64 - 1 calls: its counter stands at the
\* largest uint64.  issued and envelopes record the calls from here on.
InitAged == NewClient(MaxUint64)

\* A caller enters Call, or a wrapper that enters Call at once.
Begin(c) ==
    /\ returned = NoReturn
    /\ pc[c] = "idle"
    /\ started < MaxCalls
    /\ \E ch \in ChoicesOf(c) : \E r \in ReplyBefore(ch[1]) :
        /\ op' = [op EXCEPT ![c] = ch[1]]
        /\ args' = [args EXCEPT ![c] = ch[2]]
        /\ reply' = [reply EXCEPT ![c] = r]
    /\ pc' = [pc EXCEPT ![c] = "lock"]
    /\ started' = started + 1
    /\ prior' = [prior EXCEPT ![c] = finished]
    /\ returned' = NoReturn
    /\ UNCHANGED <<id, mutex, reqId, req, issued, envelopes,
                 url, client, posts, draws, finished, misrouted>>

\* A variant of Lock that does not wait for the mutex to be free.
LockWithoutWaiting(c) ==
    /\ returned = NoReturn
    /\ pc[c] = "lock"
    /\ mutex' = c
    /\ pc' = [pc EXCEPT ![c] = "read"]
    /\ returned' = NoReturn
    /\ UNCHANGED <<id, op, args, reply, reqId, req, started, issued, envelopes,
                 url, client, posts, draws, finished, misrouted, prior>>

\* line 60: self.mutex.Lock()
Lock(c) ==
    /\ returned = NoReturn
    /\ pc[c] = "lock"
    /\ mutex = 0
    /\ mutex' = c
    /\ pc' = [pc EXCEPT ![c] = "read"]
    /\ returned' = NoReturn
    /\ UNCHANGED <<id, op, args, reply, reqId, req, started, issued, envelopes,
                 url, client, posts, draws, finished, misrouted, prior>>

\* line 61: reqId := self.id
ReadId(c) ==
    /\ returned = NoReturn
    /\ pc[c] = "read"
    /\ reqId' = [reqId EXCEPT ![c] = id]
    /\ issued' = Append(issued, id)
    /\ draws' = [draws EXCEPT ![c] = draws[c] + 1]
    /\ pc' = [pc EXCEPT ![c] = "inc"]
    /\ prior' = [prior EXCEPT ![c] = {}]
    /\ returned' = NoReturn
    /\ UNCHANGED <<id, mutex, op, args, reply, req, started, envelopes,
                 url, client, posts, finished, misrouted>>

\* line 62: self.id += 1
IncId(c) ==
    /\ returned = NoReturn
    /\ pc[c] = "inc"
    /\ id' = PlusOne(id)
    /\ pc' = [pc EXCEPT ![c] = "unlock"]
    /\ returned' = NoReturn
    /\ UNCHANGED <<mutex, op, args, reply, reqId, req, started, issued, envelopes,
                 url, client, posts, draws, finished, misrouted, prior>>

\* A variant of Unlock that leaves the mutex locked.
UnlockForgotten(c) ==
    /\ returned = NoReturn
    /\ pc[c] = "unlock"
    /\ pc' = [pc EXCEPT ![c] = "build"]
    /\ returned' = NoReturn
    /\ UNCHANGED <<id, mutex, op, args, reply, reqId, req, started, issued, envelopes,
                 url, client, posts, draws, finished, misrouted, prior>>

\* line 63: self.mutex.Unlock()
Unlock(c) ==
    /\ returned = NoReturn
    /\ pc[c] = "unlock"
    /\ mutex' = 0
    /\ pc' = [pc EXCEPT ![c] = "build"]
    /\ returned' = NoReturn
    /\ UNCHANGED <<id, op, args, reply, reqId, req, started, issued, envelopes,
                 url, client, posts, draws, finished, misrouted, prior>>

\* lines 64-72: the envelope is built with Id: reqId
Build(c) ==
    /\ returned = NoReturn
    /\ pc[c] = "build"
    /\ req' = [req EXCEPT ![c] = BuildRequest(MethodOf(op[c]), args[c], reqId[c])]
    /\ envelopes' = envelopes (+) SetToBag({reqId[c]})
    /\ pc' = [pc EXCEPT ![c] = "marshal"]
    /\ returned' = NoReturn
    /\ UNCHANGED <<id, mutex, op, args, reply, reqId, started, issued,
                 url, client, posts, draws, finished, misrouted, prior>>

\* The caller is back from its operation: the locals of the call are gone,
\* the return is recorded with what the call was and what it was answered.
Finish(c, resp, call) ==
    /\ returned' = Ptr([caller |-> c, op |-> op[c], args |-> args[c],
                        reqId |-> reqId[c], resp |-> resp, before |-> reply[c],
                        draws |-> draws[c], posts |-> posts[c],
                        misrouted |-> misrouted[c], call |-> call,
                        wrap |-> IF op[c] = "Call" THEN NoWrapper
                                 ELSE Wrapper(op[c], call)])
    /\ pc' = [pc EXCEPT ![c] = "idle"]
    /\ op' = [op EXCEPT ![c] = "Call"]
    /\ args' = [args EXCEPT ![c] = NilValue]
    /\ reply' = [reply EXCEPT ![c] = Nil]
    /\ reqId' = [reqId EXCEPT ![c] = Uint64Zero]
    /\ req' = [req EXCEPT ![c] = NoRequest]
    /\ draws' = [draws EXCEPT ![c] = 0]
    /\ posts' = [posts EXCEPT ![c] = 0]
    /\ finished' = finished \cup {reqId[c]}
    /\ misrouted' = [d \in Callers |->
                        IF d = c THEN Nil
                        ELSE IF Crossing(c, d, resp, call)
                            THEN Ptr(reqId[c])
                        ELSE misrouted[d]]
    /\ UNCHANGED <<id, mutex, started, issued, envelopes,
                 url, client, prior>>

\* lines 73-76: json.Marshal fails and Call returns its error
MarshalFail(c) ==
    /\ returned = NoReturn
    /\ pc[c] = "marshal"
    /\ MarshalFails(req[c])
    /\ Finish(c, NoResponse, SerializeReturn(reply[c]))

\* lines 73-77: the body is serialized and client.Post sends it
Post(c) ==
    /\ returned = NoReturn
    /\ pc[c] = "marshal"
    /\ ~MarshalFails(req[c])
    /\ posts' = [posts EXCEPT ![c] = posts[c] + 1]
    /\ pc' = [pc EXCEPT ![c] = "await"]
    /\ returned' = NoReturn
    /\ UNCHANGED <<id, mutex, op, args, reply, reqId, req, started, issued, envelopes,
                 url, client, draws, finished, misrouted, prior>>

\* A variant of Receive that sends the request once more when the exchange
\* fails in the transport.
ReceiveRetrying(c) ==
    /\ returned = NoReturn
    /\ pc[c] = "await"
    /\ \E resp \in Responses(EchoIds(c), MarshalParams(req[c].Params)) :
        IF resp.fail # "none" /\ posts[c] < 2
        THEN /\ pc' = [pc EXCEPT ![c] = "marshal"]
             /\ returned' = NoReturn
             /\ UNCHANGED <<id, mutex, op, args, reply, reqId, req, started, issued,
                            envelopes, url, client, posts, draws, finished, misrouted, prior>>
        ELSE Finish(c, resp, HandleResponse(reqId[c], resp, reply[c]))

\* A variant of Receive that compares the echoed identifier with the last
\* identifier the shared counter gave out, not with the call's own.
ReceiveComparingLatest(c) ==
    /\ returned = NoReturn
    /\ pc[c] = "await"
    /\ \E resp \in Responses(EchoIds(c), MarshalParams(req[c].Params)) :
        Finish(c, resp, HandleResponse(issued[Len(issued)], resp, reply[c]))

\* lines 77-101: the exchange ends, with a failure or a response, and Call
\* (and the wrapper around it) runs to its return
Receive(c) ==
    /\ returned = NoReturn
    /\ pc[c] = "await"
    /\ \E resp \in Responses(EchoIds(c), MarshalParams(req[c].Params)) :
        Finish(c, resp, HandleResponse(reqId[c], resp, reply[c]))

\* The caller has its return value and goes on: the record of the return is
\* dropped.  A return is observed in the state it leads to, before any other
\* step of the program is taken.
TakeReturn ==
    /\ returned # NoReturn
    /\ returned' = NoReturn
    /\ UNCHANGED <<id, mutex, pc, op, args, reply, reqId, req, started, issued, envelopes,
                 url, client, posts, draws, finished, misrouted, prior>>

Next ==
    \/ TakeReturn
    \/ \E c \in Callers :
        \/ Begin(c)
        \/ Lock(c)
        \/ ReadId(c)
        \/ IncId(c)
        \/ Unlock(c)
        \/ Build(c)
        \/ MarshalFail(c)
        \/ Post(c)
        \/ Receive(c)

Spec == Init /\ [][Next]_vars

\* The same client late in its life, for what happens at the end of the
\* counter's range.
SpecAged == InitAged /\ [][Next]_vars

\* The scheduling of the program: a caller inside Call goes on running (the
\* Go scheduler runs every runnable goroutine), a caller waiting in
\* mutex.Lock gets the mutex if it is released again and again (sync.Mutex
\* hands the lock to a starving waiter), the transport ends every exchange
\* with a response or an error, and a return is taken.
Fairness ==
    /\ \A c \in Callers :
        /\ SF_vars(Lock(c))
        /\ WF_vars(ReadId(c))
        /\ WF_vars(IncId(c))
        /\ WF_vars(Unlock(c))
        /\ WF_vars(Build(c))
        /\ WF_vars(MarshalFail(c))
        /\ WF_vars(Post(c))
        /\ WF_vars(Receive(c))
    /\ WF_vars(TakeReturn)

SpecFair == Init /\ [][Next]_vars /\ Fairness

\* ---------------------------------------------------------------- claims
\* The return just made, and whether it answers a decoded response envelope.
Ev == returned[1]
Answered ==
    /\ returned # NoReturn
    /\ Ev.resp.fail = "none"
    /\ Ev.resp.body.wf
Populated(body) == body.result # Nil /\ body.result # Ptr("null")
FirstIds(n) == {FromNat(k) : k \in 0..(n - 1)}
InCall(c) == pc[c] \in {"build", "marshal", "await"}

\* C1: the identifiers placed in the envelopes of n calls are exactly
\* 0..n-1: no identifier is in two envelopes, none is outside 0..n-1, and
\* once every call begun has built its envelope none below n is missing.
C1_IdentifiersExact ==
    /\ \A i \in BagToSet(envelopes) : CopiesIn(i, envelopes) = 1
    /\ BagToSet(envelopes) \subseteq FirstIds(started)
    /\ BagCardinality(envelopes) = started => BagToSet(envelopes) = FirstIds(started)

\* Two calls in flight at once, the later one answered first and failing.
C1_Witness ==
    /\ BagToSet(envelopes) = FirstIds(2)
    /\ returned # NoReturn
    /\ Ev.reqId = FromNat(1)
    /\ Ev.call.err # Nil
    /\ \E c \in Callers : pc[c] = "await" /\ reqId[c] = FromNat(0)

\* C2, as claimed: a response whose echoed identifier differs from the one
\* sent always yields UnsynchronizedResponseError and leaves reply unwritten.
C2_MismatchAlwaysUnsynchronized ==
    (Answered /\ Ev.resp.body.id # Ev.reqId) =>
        /\ Ev.call.ret = "UnsynchronizedResponseError"
        /\ Ev.call.reply = Ev.before

\* C2, amended: a response whose echoed identifier differs from the one sent
\* always fails and never writes reply; the failure is
\* UnsynchronizedResponseError when the response has no error object and a
\* status of at most 299.
C2_MismatchNeverAccepted ==
    (Answered /\ Ev.resp.body.id # Ev.reqId) =>
        /\ Ev.call.ret \notin {"ok", "panic"}
        /\ Ev.call.err # Nil
        /\ Ev.call.reply = Ev.before
        /\ (Ev.resp.body.error = Nil /\ Ev.resp.status <= 299) =>
               Ev.call.ret = "UnsynchronizedResponseError"

C2_Witness ==
    /\ Answered
    /\ Ev.resp.body.id # Ev.reqId
    /\ Populated(Ev.resp.body)
    /\ Ev.resp.status = 200
    /\ Ev.call.ret = "UnsynchronizedResponseError"
    /\ Ev.call.err = Ptr("Unsynchronized request, had: 1, received: 0")

\* C3: a decoded response with a non-null error object makes Call fail with
\* the error whose text is that object's message, whatever the status, the
\* echoed identifier and the result.
C3_ErrorObjectYieldsProtocolError ==
    (Answered /\ Ev.resp.body.error # Nil) =>
        /\ Ev.call.ret = "ProtocolError"
        /\ Ev.call.err = Ptr(Ev.resp.body.error[1].Message)

C3_Witness ==
    /\ Answered
    /\ Ev.resp.body.error = Ptr(KamError(-32601, "Method not found"))
    /\ Ev.resp.status = 200
    /\ Ev.resp.body.id = Ev.reqId
    /\ Populated(Ev.resp.body)
    /\ Ev.call.err = Ptr("Method not found")

\* C4: the failures of a decoded response are reported in the order error
\* object, status above 299, identifier mismatch: a status error only
\* without an error object, a mismatch error only without an error object
\* and with a status of at most 299.
C4_Precedence ==
    Answered =>
        /\ Ev.call.ret = "UnexpectedStatusError" => Ev.resp.body.error = Nil
        /\ Ev.call.ret = "UnsynchronizedResponseError" =>
               Ev.resp.body.error = Nil /\ Ev.resp.status <= 299
        /\ (Ev.resp.body.error # Nil /\ Ev.resp.status > 299) =>
               Ev.call.ret = "ProtocolError"
        /\ (Ev.resp.body.error = Nil /\ Ev.resp.status > 299
                /\ Ev.resp.body.id # Ev.reqId) =>
               Ev.call.ret = "UnexpectedStatusError"

\* All three failures apply to one response.
C4_Witness ==
    /\ Answered
    /\ Ev.resp.body.error # Nil
    /\ Ev.resp.status = 500
    /\ Ev.resp.body.id # Ev.reqId
    /\ Ev.call.ret = "ProtocolError"

\* C5, as claimed: UacRegEnable answered with status 200 and the body
\* {"result":null} returns no error and sets reply to "OK".
C5_EnableOnNullResult ==
    (/\ Answered
     /\ Ev.op = "UacRegEnable"
     /\ Ev.resp.status = 200
     /\ Ev.resp.body = [wf |-> TRUE, id |-> Uint64Zero,
                        result |-> Ptr("null"), error |-> Nil]) =>
        Ev.wrap = Return("ok", Nil, OK)

\* C6: a decoded response with no error object, a status of at most 299, the
\* identifier sent and a populated result makes Call return no error with
\* reply holding the text of the result member.
C6_ResultPassedThrough ==
    (/\ Answered
     /\ Ev.resp.body.error = Nil
     /\ Ev.resp.status <= 299
     /\ Ev.resp.body.id = Ev.reqId
     /\ Populated(Ev.resp.body)) =>
        /\ Ev.call.ret = "ok"
        /\ Ev.call.err = Nil
        /\ Ev.call.reply = Ev.resp.body.result

C6_Witness ==
    /\ Answered
    /\ Ev.op = "Call"
    /\ Ev.resp.status = 299
    /\ Ev.reqId = FromNat(1)
    /\ Ev.call = Return("ok", Nil, Ptr("[\"a\",\"b\"]"))

\* C7: a decoded response with no error object and a status above 299 makes
\* Call fail with the status error naming that status, whatever the echoed
\* identifier and the result, and reply is not written.
C7_StatusError ==
    (Answered /\ Ev.resp.body.error = Nil /\ Ev.resp.status > 299) =>
        /\ Ev.call.ret = "UnexpectedStatusError"
        /\ Ev.call.err =
               Ptr("Unexpected status code received: " \o ToString(Ev.resp.status))
        /\ Ev.call.reply = Ev.before

C7_Witness ==
    /\ Answered
    /\ Ev.resp.status = 500
    /\ Ev.resp.body.id # Ev.reqId
    /\ Populated(Ev.resp.body)
    /\ Ev.before # Nil
    /\ Ev.call = Return("UnexpectedStatusError",
                        Ptr("Unexpected status code received: 500"), Ev.before)

\* C8, as claimed: the error Call returns for an error object carries the
\* object's code as well as its message: the same response with another code
\* and the same message gives a different error.
C8_ErrorCarriesCode ==
    (Answered /\ Ev.resp.body.error # Nil) =>
        \A e \in ErrorFields \ {Nil} :
            (e[1].Message = Ev.resp.body.error[1].Message
                /\ e[1].Code # Ev.resp.body.error[1].Code) =>
                HandleResponse(Ev.reqId,
                               [Ev.resp EXCEPT !.body.error = e],
                               Ev.before).err # Ev.call.err

\* C9, as claimed: whenever some call is waiting for its response the lock
\* is free.
C9_LockFreeWhileAnyCallWaits ==
    (\E c \in Callers : pc[c] = "await") => mutex = 0

\* C9, amended: the lock is held only during the read-and-increment: a call
\* past its Unlock (building, sending, waiting for its response) never
\* holds the lock, which is free or held by a call between its Lock and
\* its Unlock.
C9_LockOnlyAroundIncrement ==
    /\ \A c \in Callers : InCall(c) => mutex # c
    /\ mutex # 0 => pc[mutex] \in {"read", "inc", "unlock"}

\* A call that took its identifier after a waiting call did has returned
\* with its result while the first is still waiting.
C9_Witness ==
    /\ returned # NoReturn
    /\ Ev.call.ret = "ok"
    /\ \E c \in Callers :
        /\ c # Ev.caller
        /\ pc[c] = "await"
        /\ Less(reqId[c], Ev.reqId)

\* C10, as claimed: identifiers are never reused and always grow, however
\* many calls the client serves: every identifier read is greater than
\* every identifier read before it.
C10_IdentifiersAlwaysGrow ==
    \A i \in 1..Len(issued) : \A j \in 1..Len(issued) :
        i < j => Less(issued[i], issued[j])


\* C11: Call normalizes args into Params: a []string of length k gives k
\* elements, Params[i] the string args[i], in the same order (none for an
\* empty list); any other args (nil, a list that is not a []string, any
\* other value) gives the one-element sequence holding args itself.
C11_ParamsNormalized ==
    \A c \in Callers :
        pc[c] \in {"marshal", "await"} =>
            /\ args[c].type = "[]string" =>
                   /\ Len(req[c].Params) = Len(args[c].strs)
                   /\ \A i \in 1..Len(args[c].strs) :
                          req[c].Params[i] = StringValue(args[c].strs[i])
            /\ args[c].type # "[]string" => req[c].Params = <<args[c]>>

\* One call has built its params from a list that is not a []string, while
\* another has built them from a list of two strings.
C11_Witness ==
    \E c \in Callers : \E d \in Callers :
        /\ pc[c] = "await"
        /\ args[c] = NumberList(<<"1">>)
        /\ req[c].Params = <<NumberList(<<"1">>)>>
        /\ pc[d] \in {"marshal", "await"}
        /\ args[d] = StringSlice(<<"a", "b">>)
        /\ req[d].Params = <<StringValue("a"), StringValue("b")>>

\* C12: a call of Call makes at most one HTTP exchange and draws one
\* identifier: when it returns it has called client.Post exactly once if
\* the request was serialized and not at all if serialization failed, and it
\* has read the counter once, whatever the outcome; it returns as soon as
\* the exchange has ended.
C12_OneExchangePerCall ==
    /\ \A c \in Callers :
        /\ posts[c] <= 1
        /\ draws[c] <= 1
        /\ pc[c] = "await" => posts[c] = 1
    /\ returned # NoReturn =>
        /\ Ev.draws = 1
        /\ Ev.posts = IF Ev.call.ret = "SerializeError" THEN 0 ELSE 1

\* The second of two calls failed in the transport and returns after its one
\* exchange.
C12_Witness ==
    /\ returned # NoReturn
    /\ Ev.call.ret = "TransportError"
    /\ Ev.posts = 1
    /\ Ev.draws = 1
    /\ Len(issued) = 2
    /\ BagCardinality(envelopes) = 2
    /\ \A c \in Callers : pc[c] = "idle"

\* C13: NewKamailioJsonRpc returns no error and a client with the endpoint
\* and TLS setting it was given and a counter of zero, for every endpoint
\* and every skipTlsVerify; until a call begins nothing has been posted and
\* no identifier drawn, and the first identifier drawn, and sent in that
\* call's envelope, is 0.
C13_ConstructionSucceeds ==
    /\ \A u \in Endpoints : \A skip \in SkipTlsVerify :
        LET k == NewKamailioJsonRpc(u, skip) IN
        /\ k.err = Nil
        /\ k.self.id = Uint64Zero
        /\ k.self.url = u
        /\ k.self.client.InsecureSkipVerify = skip
    /\ \E cfg \in Configs :
        /\ url = NewKamailioJsonRpc(cfg[1], cfg[2]).self.url
        /\ client = NewKamailioJsonRpc(cfg[1], cfg[2]).self.client
    /\ started = 0 =>
        /\ id = Uint64Zero
        /\ issued = <<>>
        /\ envelopes = EmptyBag
        /\ \A c \in Callers : posts[c] = 0
    /\ Len(issued) >= 1 => issued[1] = Uint64Zero
    /\ \A c \in Callers :
        (pc[c] \in {"marshal", "await"} /\ reqId[c] = issued[1]) =>
            req[c].Id = Uint64Zero

\* The first call of a new client has posted its request, with identifier
\* 0, to the endpoint given at construction.
C13_Witness ==
    /\ url = "https://kamailio.example/RPC"
    /\ client.InsecureSkipVerify
    /\ issued = <<Uint64Zero>>
    /\ \E c \in Callers :
        /\ pc[c] = "await"
        /\ posts[c] = 1
        /\ req[c].Id = Uint64Zero

\* C14: a typed wrapper whose Call failed returns the error Call returned,
\* unchanged; a command wrapper (UacRegEnable, UacRegDisable, UacRegReload,
\* UacRegRefresh, DomainReload) leaves reply at "OK" exactly when its Call
\* returned no error, and then returns no error itself.
C14_WrappersPassErrors ==
    (returned # NoReturn /\ Ev.op # "Call") =>
        /\ Ev.call.err # Nil =>
               /\ Ev.wrap.err = Ev.call.err
               /\ Ev.wrap.ret = Ev.call.ret
        /\ Ev.op \in CommandOps =>
               /\ (Ev.wrap.reply = OK) <=> (Ev.call.ret = "ok")
               /\ (Ev.wrap.reply = OK) <=> (Ev.wrap.ret = "ok" /\ Ev.wrap.err = Nil)

\* DomainReload answered with an error object: it returns the error of its
\* Call and its reply is not "OK".
C14_Witness ==
    /\ Answered
    /\ Ev.op = "DomainReload"
    /\ Ev.resp.status = 200
    /\ Ev.resp.body.id = Ev.reqId
    /\ Ev.call.err = Ptr("Execution Error")
    /\ Ev.wrap = Return("ProtocolError", Ptr("Execution Error"), "")

\* The return just made is that of CoreEcho answered by an echoing server:
\* status 200, no error object, and a result equal to the params received.
EchoAnswered ==
    /\ Answered
    /\ Ev.op = "CoreEcho"
    /\ Ev.resp.status = 200
    /\ Ev.resp.body.error = Nil
    /\ Ev.resp.body.result = Ptr(MarshalParams(BuildParams(Ev.args)))

\* C15, as claimed: CoreEcho with a list of strings, at any point in the
\* client's sequence of calls, answered with status 200 and a result equal
\* to the received params, returns no error and an output equal to the
\* input list.
C15_EchoReturnsInput ==
    EchoAnswered =>
        /\ Ev.wrap.ret = "ok"
        /\ Ev.wrap.err = Nil
        /\ Ev.wrap.reply = Ev.args

\* C15, amended: when the answer also echoes the identifier of the request,
\* CoreEcho returns no error and the list as it was sent, each string
\* coerced to valid UTF-8: the input list itself when its strings are valid
\* UTF-8.
C15_EchoReturnsWhatWasSent ==
    (EchoAnswered /\ Ev.resp.body.id = Ev.reqId) =>
        /\ Ev.wrap.ret = "ok"
        /\ Ev.wrap.err = Nil
        /\ Ev.wrap.reply =
               StringSlice([i \in 1..Len(Ev.args.strs) |-> Utf8Coerce(Ev.args.strs[i])])
        /\ (\A i \in 1..Len(Ev.args.strs) : Ev.args.strs[i] # BadUtf8) =>
               Ev.wrap.reply = Ev.args

\* CoreEcho as the second call of the client gets its two strings back.
C15_Witness ==
    /\ EchoAnswered
    /\ Ev.reqId = FromNat(1)
    /\ Ev.resp.body.id = Ev.reqId
    /\ Ev.args = StringSlice(<<"a", "b">>)
    /\ Ev.wrap = Return("ok", Nil, StringSlice(<<"a", "b">>))

\* C16: a call given the response of another call (decoded, no error
\* object, status of at most 299, echoing the other call's identifier)
\* fails with UnsynchronizedResponseError naming its own identifier and the
\* one received, and its reply is not written, so the other call's payload
\* is not returned; this holds for each of two calls whose responses are
\* swapped.  The comparison is with the call's own identifier: the
\* mismatch error is returned only for an identifier other than the call's
\* own, and a response echoing the call's own identifier is never rejected
\* as unsynchronized, wherever the shared counter stands by then.
C16_CrossedResponsesRejected ==
    Answered =>
        /\ (/\ Ev.resp.body.error = Nil
            /\ Ev.resp.status <= 299
            /\ Ev.resp.body.id # Ev.reqId) =>
               /\ Ev.call.ret = "UnsynchronizedResponseError"
               /\ Ev.call.err =
                      Ptr(UnsynchronizedResponseError(Ev.reqId, Ev.resp.body.id))
               /\ Ev.call.reply = Ev.before
               /\ Populated(Ev.resp.body) => Ev.call.reply # Ev.resp.body.result
        /\ Ev.call.ret = "UnsynchronizedResponseError" =>
               Ev.resp.body.id # Ev.reqId
        /\ (Ev.misrouted # Nil /\ Ev.resp.body.id = Ev.misrouted[1]) =>
               Ev.call.ret \notin {"ok", "panic"}

\* Two calls were waiting at once; the first to return was given the
\* response of the second and failed on the identifier, and now the second
\* returns, given the response of the first, with the same failure.
C16_Witness ==
    /\ Answered
    /\ Ev.misrouted # Nil
    /\ Ev.resp.body.id = Ev.misrouted[1]
    /\ Ev.resp.body.id # Ev.reqId
    /\ Ev.resp.status = 200
    /\ Ev.resp.body.error = Nil
    /\ Populated(Ev.resp.body)
    /\ Ev.call.ret = "UnsynchronizedResponseError"
    /\ Ev.call.reply = Ev.before
    /\ id # Ev.reqId

\* C17: a response whose body json.Unmarshal cannot decode into the envelope
\* makes Call fail with DecodeError whatever the status, a status above
\* 299 included, and reply is not written.
C17_UndecodableBodyYieldsDecodeError ==
    (returned # NoReturn /\ Ev.resp.fail = "none" /\ ~Ev.resp.body.wf) =>
        /\ Ev.call.ret = "DecodeError"
        /\ Ev.call.err # Nil
        /\ Ev.call.reply = Ev.before

\* A response with status 500 and an undecodable body.
C17_Witness ==
    /\ returned # NoReturn
    /\ Ev.resp.fail = "none"
    /\ ~Ev.resp.body.wf
    /\ Ev.resp.status = 500
    /\ Ev.call.ret = "DecodeError"

\* C18, as claimed: identifiers respect the real-time order of calls: a call
\* that begins after another has returned reads an identifier strictly
\* greater than that call's; the counter never decreases; and an
\* identifier once handed out, to a call that failed or not, is not handed
\* out again.
C18_Step ==
    /\ ~Less(id', id)
    /\ \A c \in Callers :
        (pc[c] = "read" /\ pc'[c] = "inc") =>
            /\ \A x \in prior[c] : Less(x, reqId'[c])
            /\ \A i \in 1..Len(issued) : issued[i] # reqId'[c]
C18_RealTimeOrder == [][C18_Step]_vars

\* C19: a call of Call that returns an error (from serialization, the
\* transport, decoding, an error object, the status or the identifier)
\* leaves the caller's reply as it was; reply differs afterwards only when
\* Call returned no error; the call that returned does not hold the lock;
\* and no step changes the client's endpoint or transport, so that the
\* counter is the only client state a call leaves changed.
C19_ReturnFrame ==
    returned # NoReturn =>
        /\ Ev.call.err # Nil => Ev.call.reply = Ev.before
        /\ Ev.call.ret \in {"SerializeError", "TransportError", "DecodeError",
                            "ProtocolError", "UnexpectedStatusError",
                            "UnsynchronizedResponseError"} =>
               Ev.call.err # Nil
        /\ Ev.call.reply # Ev.before => Ev.call.ret = "ok" /\ Ev.call.err = Nil
        /\ mutex # Ev.caller
C19_ClientFrame ==
    /\ url' = url
    /\ client' = client
    /\ id' # id =>
           \E c \in Callers : pc[c] = "inc" /\ pc'[c] = "unlock" /\ id' = PlusOne(id)
C19_ErrorsLeaveReplyAndClient == [](C19_ReturnFrame) /\ [][C19_ClientFrame]_vars

\* A call whose request could not be serialized has returned its error: the
\* reply holds what it held, the counter has moved, endpoint and transport
\* are those of the construction.
C19_Witness ==
    /\ returned # NoReturn
    /\ Ev.call.ret = "SerializeError"
    /\ Ev.before = Ptr("\"old\"")
    /\ Ev.call.reply = Ev.before
    /\ id = FromNat(1)
    /\ url = "https://kamailio.example/RPC"
    /\ client = [InsecureSkipVerify |-> TRUE]

\* C20, as claimed: under fair scheduling, with a transport that ends every
\* exchange, every call that has begun obtains an identifier, every call
\* comes to its end, and it ends by returning.
C20_EveryCallReturns ==
    /\ \A c \in Callers : (pc[c] = "lock") ~> (pc[c] = "inc")
    /\ \A c \in Callers : (pc[c] # "idle") ~> (pc[c] = "idle")
    /\ [](returned # NoReturn => Ev.call.ret # "panic")
====
